---- MODULE Spec2Model ----
(***************************************************************************)
(* bgclipper: the clipboard orchestrator (ClipboardService), the scanner   *)
(* (make_transparent), the clipboard provider with its change counter and  *)
(* the TOML configuration provider.                                        *)
(*                                                                         *)
(* Option<T> values are sequences of length 0 (None) or 1 (Some).          *)
(***************************************************************************)
EXTENDS Integers, Sequences, FiniteSets, TLC

(* ------------------------------ bounds -------------------------------- *)
\* largest number of pixels of an image an external writer places
MaxPixels == 2
\* largest value the provider's change counter is followed to
MaxCount == 3
\* largest value of the provider's change counter at construction
MaxInitCount == 1
\* largest length, in bytes, of a buffer passed to make_transparent directly
MaxScanLen == 8

(* --------------------------- domain: Color ---------------------------- *)
\* Color::new
Color(r, g, b) == [r |-> r, g |-> g, b |-> b]

\* Color::default, white
DefaultColor == Color(255, 255, 255)

\* mutant: the blue channel is not compared
matches_TwoChannels(pixel_color, target) ==
    /\ pixel_color.r = target.r
    /\ pixel_color.g = target.g

\* Color::matches, exact equality of the three channels
matches(pixel_color, target) ==
    /\ pixel_color.r = target.r
    /\ pixel_color.g = target.g
    /\ pixel_color.b = target.b

(* ----------------------- domain: image, scanner ----------------------- *)
None == << >>
Some(x) == << x >>
IsSome(o) == Len(o) = 1
Unwrap(o) == o[1]

\* ImageData
ImageData(pixels, width, height) ==
    [pixels |-> pixels, width |-> width, height |-> height]

\* number of 4-byte chunks of a buffer (chunks_exact_mut(4))
NumChunks(pixels) == Len(pixels) \div 4

\* the RGB of chunk k (1-based) of a buffer
PixelColor(pixels, k) ==
    Color(pixels[4 * (k - 1) + 1], pixels[4 * (k - 1) + 2], pixels[4 * (k - 1) + 3])

\* the loop of make_transparent from chunk k on: acc is [pixels, count,
\* panicked]; a remainder of fewer than 4 bytes is not visited
RECURSIVE ScanFrom(_, _, _)
ScanFrom(acc, target, k) ==
    IF k > NumChunks(acc.pixels)
    THEN acc
    ELSE IF matches(PixelColor(acc.pixels, k), target)
         THEN ScanFrom([acc EXCEPT !.pixels[4 * k] = 0, !.count = @ + 1],
                       target, k + 1)
         ELSE ScanFrom(acc, target, k + 1)

\* mutant: only the pixels whose alpha was not 0 yet are counted
make_transparent_CountsChanged(pixels, target) ==
    IF Len(pixels) % 4 # 0
    THEN [pixels |-> pixels, count |-> 0, panicked |-> TRUE]
    ELSE LET s == ScanFrom([pixels |-> pixels, count |-> 0, panicked |-> FALSE],
                           target, 1)
         IN  [s EXCEPT !.count =
                 Cardinality({k \in 1..NumChunks(pixels) :
                                 /\ matches(PixelColor(pixels, k), target)
                                 /\ pixels[4 * k] # 0})]

\* mutant: a matching pixel is cleared, all four bytes set to 0
make_transparent_ClearsPixel(pixels, target) ==
    IF Len(pixels) % 4 # 0
    THEN [pixels |-> pixels, count |-> 0, panicked |-> TRUE]
    ELSE LET s == ScanFrom([pixels |-> pixels, count |-> 0, panicked |-> FALSE],
                           target, 1)
         IN  [s EXCEPT !.pixels =
                 [i \in 1..Len(pixels) |->
                     IF matches(PixelColor(pixels, (i + 3) \div 4), target)
                     THEN 0 ELSE pixels[i]]]

\* mutant: the alpha of a matching pixel is inverted
make_transparent_InvertsAlpha(pixels, target) ==
    IF Len(pixels) % 4 # 0
    THEN [pixels |-> pixels, count |-> 0, panicked |-> TRUE]
    ELSE LET s == ScanFrom([pixels |-> pixels, count |-> 0, panicked |-> FALSE],
                           target, 1)
         IN  [s EXCEPT !.pixels =
                 [i \in 1..Len(pixels) |->
                     IF i % 4 = 0 /\ matches(PixelColor(pixels, i \div 4), target)
                     THEN 255 - pixels[i] ELSE pixels[i]]]

\* mutant: the buffer length is not asserted
make_transparent_NoAssert(pixels, target) ==
    ScanFrom([pixels |-> pixels, count |-> 0, panicked |-> FALSE], target, 1)

\* make_transparent: the scanned buffer and the returned count, or a panic
\* (before any byte is visited) when the length is not a multiple of 4
make_transparent(pixels, target) ==
    IF Len(pixels) % 4 # 0
    THEN [pixels |-> pixels, count |-> 0, panicked |-> TRUE]
    ELSE ScanFrom([pixels |-> pixels, count |-> 0, panicked |-> FALSE], target, 1)

(* ------------------- infrastructure: TOML config ---------------------- *)
\* The config file is None (no file) or Some(content); the content of a
\* file is the sequence of the values of target_color's keys r, g, b.
IsU8(n) == n \in 0..255

\* mutant: the channels are written in the order b, g, r
toml_to_string_BGR(color) == << color.b, color.g, color.r >>

\* toml::to_string of a ConfigFile
toml_to_string(color) == << color.r, color.g, color.b >>

\* toml::from_str into a ConfigFile: all three u8 keys must be present
toml_from_str(content) ==
    IF Len(content) = 3 /\ \A i \in 1..3 : IsU8(content[i])
    THEN [ok |-> TRUE, value |-> Color(content[1], content[2], content[3])]
    ELSE [ok |-> FALSE, value |-> DefaultColor]

\* mutant: a file that does not parse gives the default color
load_target_color_DefaultOnParse(file, io_fails) ==
    IF io_fails
    THEN [ok |-> FALSE, err |-> << "config I/O error", "io" >>, value |-> DefaultColor]
    ELSE IF ~IsSome(file)
    THEN [ok |-> TRUE, err |-> << >>, value |-> DefaultColor]
    ELSE [ok |-> TRUE, err |-> << >>, value |-> toml_from_str(Unwrap(file)).value]

\* TomlConfigProvider::load_target_color; io_fails: read_to_string fails
\* with an error other than NotFound
load_target_color(file, io_fails) ==
    IF io_fails
    THEN [ok |-> FALSE, err |-> << "config I/O error", "io" >>, value |-> DefaultColor]
    ELSE IF ~IsSome(file)
    THEN [ok |-> TRUE, err |-> << >>, value |-> DefaultColor]
    ELSE LET parsed == toml_from_str(Unwrap(file))
         IN  IF parsed.ok
             THEN [ok |-> TRUE, err |-> << >>, value |-> parsed.value]
             ELSE [ok |-> FALSE, err |-> << "config parse error", "toml" >>, value |-> DefaultColor]

\* What can go wrong in save_target_color: create_dir_all fails, fs::write
\* fails before it touches the file, fs::write fails after it truncated it.
SaveFailPoints == {"none", "create_dir_all", "write", "write_truncated"}

\* TomlConfigProvider::save_target_color: the file is replaced by the TOML
\* of the color
save_target_color(file, color, fails) ==
    LET content == toml_to_string(color)
    IN  IF fails = "create_dir_all" \/ fails = "write"
        THEN [ok |-> FALSE, err |-> << "config I/O error", "io" >>, file |-> file]
        ELSE IF fails = "write_truncated"
        THEN [ok |-> FALSE, err |-> << "config I/O error", "io" >>,
              file |-> Some(<< >>)]
        ELSE [ok |-> TRUE, err |-> << >>, file |-> Some(content)]

\* mutant: the default color is saved whether or not there is a file
ensure_config_exists_Overwrites(file, fails) ==
    save_target_color(file, DefaultColor, fails)

\* TomlConfigProvider::ensure_config_exists: saves the default color when
\* there is no file
ensure_config_exists(file, fails) ==
    IF ~IsSome(file)
    THEN save_target_color(file, DefaultColor, fails)
    ELSE [ok |-> TRUE, err |-> << >>, file |-> file]

(* ------------------- clipboard provider (with counter) ---------------- *)
\* change_count: the provider's counter
change_count(cnt, fails) == [ok |-> ~fails, value |-> cnt]

\* get_image: a clone of the clipboard image
get_image(img, fails) == [ok |-> ~fails, value |-> img]

\* set_image: stores a clone of the image and increments the counter;
\* a failed write leaves the clipboard alone
set_image(img, cnt, new_image, fails) ==
    IF fails
    THEN [ok |-> FALSE, image |-> img, counter |-> cnt]
    ELSE [ok |-> TRUE, image |-> Some(new_image), counter |-> cnt + 1]

(* ------------------ application: ClipboardService --------------------- *)
\* The collaborator call that fails in a poll, if one does.
FailPoints ==
    {"none", "change_count", "get_image", "load_target_color", "set_image",
     "change_count_after_write"}

\* The running state of one process_clipboard call: the clipboard (image,
\* counter), the fingerprint (last), the config file, the locals
\* (current_count, local, target, changed), the collaborator calls made so
\* far, each with its outcome, and the returned value (result "" while the
\* call is running).
Return(c, result) == [c EXCEPT !.result = result]

Fail(c, point, err) == [c EXCEPT !.result = "Err", !.err = err, !.failed_at = point]

Called(c, name, ok) == [c EXCEPT !.calls = Append(@, [name |-> name, ok |-> ok])]

\* mutant: an unchanged counter does not end the poll
CheckCounter_NoSkip(c, fail) ==
    LET r == change_count(c.counter, fail = "change_count")
        d == Called(c, "change_count", r.ok)
    IN  IF ~r.ok
        THEN Fail(d, "change_count",
                  << "failed to read change count", "clipboard change count error" >>)
        ELSE [d EXCEPT !.current_count = r.value]

\* mutant: a counter one above the stored one is taken for the program's
\* own write
CheckCounter_OwnBump(c, fail) ==
    LET r == change_count(c.counter, fail = "change_count")
        d == Called(c, "change_count", r.ok)
    IN  IF ~r.ok
        THEN Fail(d, "change_count",
                  << "failed to read change count", "clipboard change count error" >>)
        ELSE IF r.value = d.last \/ r.value = d.last + 1
        THEN Return([d EXCEPT !.current_count = r.value], "Skipped")
        ELSE [d EXCEPT !.current_count = r.value]

\* mutant: an unchanged counter ends the poll only when the image on the
\* clipboard holds no opaque pixel of the configured color
CheckCounter_WatchesConfig(c, fail) ==
    LET r == change_count(c.counter, fail = "change_count")
        d == Called(c, "change_count", r.ok)
        t == load_target_color(c.file, FALSE)
        stale == /\ IsSome(c.image)
                 /\ t.ok
                 /\ \E k \in 1..NumChunks(Unwrap(c.image).pixels) :
                        /\ matches(PixelColor(Unwrap(c.image).pixels, k), t.value)
                        /\ Unwrap(c.image).pixels[4 * k] # 0
    IN  IF ~r.ok
        THEN Fail(d, "change_count",
                  << "failed to read change count", "clipboard change count error" >>)
        ELSE IF r.value = d.last /\ ~stale
        THEN Return([d EXCEPT !.current_count = r.value], "Skipped")
        ELSE [d EXCEPT !.current_count = r.value]

\* Step 1: change_count, and Skipped when it equals last_change_count
CheckCounter(c, fail) ==
    LET r == change_count(c.counter, fail = "change_count")
        d == Called(c, "change_count", r.ok)
    IN  IF ~r.ok
        THEN Fail(d, "change_count",
                  << "failed to read change count", "clipboard change count error" >>)
        ELSE IF r.value = d.last
        THEN Return([d EXCEPT !.current_count = r.value], "Skipped")
        ELSE [d EXCEPT !.current_count = r.value]

\* mutant: current_count is stored before get_image's outcome is known
ReadImage_Eager(c, fail) ==
    LET r == get_image(c.image, fail = "get_image")
        d == [Called(c, "get_image", r.ok) EXCEPT !.last = c.current_count]
    IN  IF ~r.ok
        THEN Fail(d, "get_image", << "failed to read clipboard", "clipboard error" >>)
        ELSE IF ~IsSome(r.value)
        THEN Return(d, "NoImage")
        ELSE [d EXCEPT !.local = r.value]

\* mutant: no image returns NoImage without storing current_count
ReadImage_NoRecord(c, fail) ==
    LET r == get_image(c.image, fail = "get_image")
        d == Called(c, "get_image", r.ok)
    IN  IF ~r.ok
        THEN Fail(d, "get_image", << "failed to read clipboard", "clipboard error" >>)
        ELSE IF ~IsSome(r.value)
        THEN Return(d, "NoImage")
        ELSE [d EXCEPT !.local = r.value]

\* Step 2: get_image; no image records current_count and returns NoImage
ReadImage(c, fail) ==
    LET r == get_image(c.image, fail = "get_image")
        d == Called(c, "get_image", r.ok)
    IN  IF ~r.ok
        THEN Fail(d, "get_image", << "failed to read clipboard", "clipboard error" >>)
        ELSE IF ~IsSome(r.value)
        THEN Return([d EXCEPT !.last = d.current_count], "NoImage")
        ELSE [d EXCEPT !.local = r.value]

\* mutant: a failed load falls back to the default color
LoadColor_Fallback(c, fail) ==
    LET r == load_target_color(c.file, fail = "load_target_color")
        d == Called(c, "load_target_color", r.ok)
    IN  [d EXCEPT !.target = Some(r.value)]

\* load_target_color through the ConfigPort, with the error mapped
LoadColor(c, fail) ==
    LET r == load_target_color(c.file, fail = "load_target_color")
        d == Called(c, "load_target_color", r.ok)
    IN  IF ~r.ok
        THEN Fail(d, "load_target_color", << "failed to load config" >> \o r.err)
        ELSE [d EXCEPT !.target = Some(r.value)]

\* mutant: zero matches returns Processed without storing current_count
Scan_NoRecord(c) ==
    LET img == Unwrap(c.local)
        s == make_transparent(img.pixels, Unwrap(c.target))
        d == [c EXCEPT !.local = Some([img EXCEPT !.pixels = s.pixels]),
                       !.changed = s.count]
    IN  IF s.panicked
        THEN Return(c, "Panic")
        ELSE IF s.count = 0
        THEN Return(d, "Processed")
        ELSE d

\* mutant: on zero matches the provider's counter as it is now is stored
Scan_RereadsCounter(c) ==
    LET img == Unwrap(c.local)
        s == make_transparent(img.pixels, Unwrap(c.target))
        d == [c EXCEPT !.local = Some([img EXCEPT !.pixels = s.pixels]),
                       !.changed = s.count]
    IN  IF s.panicked
        THEN Return(c, "Panic")
        ELSE IF s.count = 0
        THEN Return([d EXCEPT !.last = d.counter], "Processed")
        ELSE d

\* make_transparent on the local copy (its panic ends the call without a
\* return value); zero matches records current_count and returns Processed
\* without a write
Scan(c) ==
    LET img == Unwrap(c.local)
        s == make_transparent(img.pixels, Unwrap(c.target))
        d == [c EXCEPT !.local = Some([img EXCEPT !.pixels = s.pixels]),
                       !.changed = s.count]
    IN  IF s.panicked
        THEN Return(c, "Panic")
        ELSE IF s.count = 0
        THEN Return([d EXCEPT !.last = d.current_count], "Processed")
        ELSE d

\* mutant: a failed write still stores current_count
WriteBack_RecordsOnFailure(c, fail) ==
    LET r == set_image(c.image, c.counter, Unwrap(c.local), fail = "set_image")
        d == Called(c, "set_image", r.ok)
    IN  IF ~r.ok
        THEN Fail([d EXCEPT !.last = d.current_count], "set_image",
                  << "failed to write clipboard", "clipboard error" >>)
        ELSE [d EXCEPT !.image = r.image, !.counter = r.counter, !.wrote = TRUE]

\* set_image with the processed image
WriteBack(c, fail) ==
    LET r == set_image(c.image, c.counter, Unwrap(c.local), fail = "set_image")
        d == Called(c, "set_image", r.ok)
    IN  IF ~r.ok
        THEN Fail(d, "set_image", << "failed to write clipboard", "clipboard error" >>)
        ELSE [d EXCEPT !.image = r.image, !.counter = r.counter, !.wrote = TRUE]

\* mutant: one more than the counter read after the write is stored
RecordCounter_Ahead(c, fail) ==
    LET r == change_count(c.counter, fail = "change_count_after_write")
        d == Called(c, "change_count", r.ok)
    IN  IF ~r.ok
        THEN Fail(d, "change_count_after_write",
                  << "failed to read change count after write",
                     "clipboard change count error" >>)
        ELSE Return([d EXCEPT !.last = r.value + 1], "Processed")

\* mutant: the counter value read at the start of the poll is stored
RecordCounter_Stale(c, fail) ==
    LET r == change_count(c.counter, fail = "change_count_after_write")
        d == Called(c, "change_count", r.ok)
    IN  IF ~r.ok
        THEN Fail(d, "change_count_after_write",
                  << "failed to read change count after write",
                     "clipboard change count error" >>)
        ELSE Return([d EXCEPT !.last = d.current_count], "Processed")

\* mutant: the counter is not read again after the write
RecordCounter_Dropped(c, fail) ==
    Return(c, "Processed")

\* change_count after the write, stored as last_change_count
RecordCounter(c, fail) ==
    LET r == change_count(c.counter, fail = "change_count_after_write")
        d == Called(c, "change_count", r.ok)
    IN  IF ~r.ok
        THEN Fail(d, "change_count_after_write",
                  << "failed to read change count after write",
                     "clipboard change count error" >>)
        ELSE Return([d EXCEPT !.last = r.value], "Processed")

Running(c) == c.result = ""

\* ClipboardService::process_clipboard
process_clipboard(c, fail) ==
    LET c1 == CheckCounter(c, fail)
        c2 == IF Running(c1) THEN ReadImage(c1, fail) ELSE c1
        c3 == IF Running(c2) THEN LoadColor(c2, fail) ELSE c2
        c4 == IF Running(c3) THEN Scan(c3) ELSE c3
        c5 == IF Running(c4) THEN WriteBack(c4, fail) ELSE c4
        c6 == IF Running(c5) THEN RecordCounter(c5, fail) ELSE c5
    IN  c6

\* The clipboard is shared with other applications, which may write it
\* between two collaborator calls of one process_clipboard call.
RacePoints == {"after_change_count", "after_get_image", "after_set_image"}

\* another application writes the clipboard at the point `at` of a running
\* call: the content is replaced and the provider's counter bumped
Interleave(c, at, here, content) ==
    IF at = here /\ Running(c)
    THEN [c EXCEPT !.image = content, !.counter = @ + 1, !.ext = TRUE]
    ELSE c

\* ClipboardService::process_clipboard with an external write at `at`:
\* the steps of process_clipboard in their order, each run only while the
\* call has not returned, with the external write between them
process_clipboard_raced(c, fail, at, content) ==
    LET External(d, here) == Interleave(d, at, here, content)
        Read(d) == IF Running(d) THEN ReadImage(d, fail) ELSE d
        Load(d) == IF Running(d) THEN LoadColor(d, fail) ELSE d
        Scanned(d) == IF Running(d) THEN Scan(d) ELSE d
        Written(d) == IF Running(d) THEN WriteBack(d, fail) ELSE d
        Recorded(d) == IF Running(d) THEN RecordCounter(d, fail) ELSE d
        e1 == External(CheckCounter(c, fail), "after_change_count")
        e2 == External(Read(e1), "after_get_image")
        e5 == External(Written(Scanned(Load(e2))), "after_set_image")
    IN  Recorded(e5)

(* ------------------------------ state --------------------------------- *)
VARIABLES
    image,              \* the clipboard content, Option<ImageData>
    counter,            \* the provider's change counter
    last_change_count,  \* ClipboardService.last_change_count
    config_file,        \* the config file, Option<content>
    poll,               \* what the most recent process_clipboard call did
                        \* (after_skip: it followed an external write that
                        \* followed a call returning Skipped; after_err: it
                        \* followed, with no external write in between, a
                        \* call that failed in get_image, load_target_color
                        \* or set_image; raced: the point at which an
                        \* external write fell into it; after_race: what the
                        \* call before it did, if an external write fell
                        \* into that call and none followed)
    ext_since,          \* an external writer wrote after the most recent call
    self_written,       \* the clipboard content is this program's own write
    tray,               \* the shell: the enabled flag, the toggle item's text,
                        \* whether the event loop has exited, whether a timer
                        \* tick was ignored since the flag went off
    scan,               \* a caller of make_transparent: its buffer and target,
                        \* and what each of its first two calls returned
    cfg_op              \* the config provider's most recent operation since
                        \* the user last edited the file

vars == << image, counter, last_change_count, config_file, poll, ext_since,
           self_written, tray, scan, cfg_op >>

service_vars == << image, counter, last_change_count, poll, ext_since,
                   self_written >>

\* the pixels an external writer places: opaque white and a
\* half-transparent yellow (two channels of white)
Pixels == {<< 255, 255, 255, 255 >>, << 255, 255, 0, 128 >>}

RECURSIVE Buffers(_)
Buffers(n) ==
    IF n = 0 THEN {<< >>}
    ELSE {b \o p : b \in Buffers(n - 1), p \in Pixels}

\* the images an external writer places: width n, height 1
Images ==
    UNION {{ImageData(b, n, IF n = 0 THEN 0 ELSE 1) : b \in Buffers(n)} : n \in 0..MaxPixels}

ClipboardContents == {None} \cup {Some(i) : i \in Images}

\* the config files a user leaves on disk: none, white, black, an empty
\* file (no target_color table)
ConfigFiles == {None, Some(<< 255, 255, 255 >>), Some(<< 0, 0, 0 >>), Some(<< >>)}

NoPoll ==
    [nth |-> "none", result |-> "", err |-> << >>, calls |-> << >>,
     failed_at |-> "none", changed |-> 0, wrote |-> FALSE,
     after_skip |-> FALSE, after_err |-> FALSE, raced |-> "no",
     after_race |-> "", after_off |-> FALSE]

\* the calls of process_clipboard since construction: none, one, more
NextNth(nth) == IF nth = "none" THEN "first" ELSE "later"

\* the target color the configuration holds (white when there is no file)
TargetOf(file) == load_target_color(file, FALSE)

\* the clipboard holds an image with a pixel whose RGB is the target color
HasMatchingPixel(img, file) ==
    /\ IsSome(img)
    /\ TargetOf(file).ok
    /\ \E k \in 1..NumChunks(Unwrap(img).pixels) :
           PixelColor(Unwrap(img).pixels, k) = TargetOf(file).value

\* the shell after run() has built the menu: polling on, the toggle item
\* reads "Disable". idle_tick and off_write are history: a timer tick found
\* the flag off; the last external write found the flag off.
TrayStart ==
    [enabled |-> TRUE, toggle_text |-> "Disable", exited |-> FALSE,
     idle_tick |-> FALSE, off_write |-> FALSE]

\* no call of make_transparent outside process_clipboard
ScanOff ==
    [stage |-> "off", input |-> << >>, target |-> DefaultColor,
     pixels |-> << >>, count |-> 0, first |-> << >>, first_count |-> 0]

\* no config provider operation since the user's last edit
NoOp ==
    [op |-> "none", ok |-> TRUE, err |-> << >>, value |-> None, arg |-> None,
     saved |-> None, ensured |-> None]

Init ==
    /\ image \in ClipboardContents
    /\ counter \in 0..MaxInitCount
    /\ last_change_count = 0
    /\ config_file \in ConfigFiles
    /\ poll = NoPoll
    /\ ext_since = FALSE
    /\ self_written = FALSE
    /\ tray = TrayStart
    /\ scan = ScanOff
    /\ cfg_op = NoOp

\* the state a process_clipboard call starts in
Enter ==
    [image |-> image, counter |-> counter, last |-> last_change_count,
     file |-> config_file, current_count |-> 0, local |-> None,
     target |-> None, changed |-> 0, wrote |-> FALSE, ext |-> FALSE,
     calls |-> << >>, result |-> "", err |-> << >>, failed_at |-> "none"]

\* what is recorded of a process_clipboard call that ended in c
PollRecord(c) ==
    [nth |-> NextNth(poll.nth),
     result |-> c.result, err |-> c.err, calls |-> c.calls,
     failed_at |-> c.failed_at, changed |-> c.changed, wrote |-> c.wrote,
     after_skip |-> (ext_since /\ poll.result = "Skipped"),
     after_err |-> (/\ ~ext_since
                    /\ poll.result = "Err"
                    /\ poll.failed_at \in {"get_image", "load_target_color",
                                           "set_image"}),
     raced |-> "no",
     after_race |-> IF poll.raced # "no" /\ ext_since
                    THEN IF poll.wrote THEN "Wrote" ELSE poll.result
                    ELSE "",
     after_off |-> (ext_since /\ tray.off_write /\ IsSome(image))]

\* the effect of one process_clipboard call on the clipboard and the
\* service; a call that panicked has ended the process
Poll(fail) ==
    LET c == process_clipboard(Enter, fail)
    IN  /\ poll.result # "Panic"
        /\ c.counter <= MaxCount
        /\ image' = c.image
        /\ counter' = c.counter
        /\ last_change_count' = c.last
        /\ poll' = PollRecord(c)
        /\ ext_since' = FALSE
        /\ self_written' = (c.wrote \/ self_written)
        /\ UNCHANGED config_file

\* one call of process_clipboard by the shell's poll timer
ProcessClipboard(fail) ==
    /\ Poll(fail)
    /\ UNCHANGED << tray, scan, cfg_op >>

\* another application writes the clipboard (an image, or something that
\* is not an image): the content is replaced and the counter bumped
ExternalWrite(content) ==
    /\ counter < MaxCount
    /\ image' = content
    /\ counter' = counter + 1
    /\ ext_since' = TRUE
    /\ self_written' = FALSE
    /\ tray' = [tray EXCEPT !.off_write = ~tray.enabled]
    /\ UNCHANGED << last_change_count, config_file, poll, scan, cfg_op >>

\* the user edits, replaces or removes the config file
EditConfig(file) ==
    /\ file # config_file
    /\ config_file' = file
    /\ cfg_op' = NoOp
    /\ UNCHANGED << service_vars, tray, scan >>

Next ==
    \/ \E fail \in FailPoints : ProcessClipboard(fail)
    \/ \E content \in ClipboardContents : ExternalWrite(content)
    \/ \E file \in ConfigFiles : EditConfig(file)

Spec == Init /\ [][Next]_vars

(* ------------------ make_transparent and its callers ------------------- *)
\* the bytes a caller's buffer holds
ScanBytes == {0, 255}

RECURSIVE ByteSeqs(_)
ByteSeqs(n) ==
    IF n = 0 THEN {<< >>}
    ELSE {Append(b, x) : b \in ByteSeqs(n - 1), x \in ScanBytes}

\* the buffers a caller passes: every length up to MaxScanLen, the
\* lengths that are no multiple of 4 included
ScanBuffers == UNION {ByteSeqs(n) : n \in 0..MaxScanLen}

\* the target colors a caller passes: white, black, magenta
ScanTargets == {Color(255, 255, 255), Color(0, 0, 0), Color(255, 0, 255)}

\* a caller holds a buffer and a target and has not called yet
InitScan ==
    /\ image = None
    /\ counter = 0
    /\ last_change_count = 0
    /\ config_file = None
    /\ poll = NoPoll
    /\ ext_since = FALSE
    /\ self_written = FALSE
    /\ tray = TrayStart
    /\ cfg_op = NoOp
    /\ scan \in {[ScanOff EXCEPT !.stage = "input", !.input = b, !.pixels = b,
                                 !.target = t] :
                 b \in ScanBuffers, t \in ScanTargets}

\* the caller calls make_transparent(&mut pixels, &target), for the first
\* or for the second time; a panic ends the caller
ScanCall ==
    /\ scan.stage \in {"input", "once"}
    /\ LET r == make_transparent(scan.pixels, scan.target)
       IN  scan' = IF r.panicked
                   THEN [scan EXCEPT !.stage = "panicked", !.pixels = r.pixels]
                   ELSE IF scan.stage = "input"
                   THEN [scan EXCEPT !.stage = "once", !.pixels = r.pixels,
                                     !.count = r.count, !.first = r.pixels,
                                     !.first_count = r.count]
                   ELSE [scan EXCEPT !.stage = "twice", !.pixels = r.pixels,
                                     !.count = r.count]
    /\ UNCHANGED << service_vars, config_file, tray, cfg_op >>

NextScan == ScanCall

SpecScan == InitScan /\ [][NextScan]_vars

(* ------------- the service with images of any buffer length ------------ *)
\* images whose buffer length is no multiple of 4: three bytes, and one
\* white pixel followed by one more byte
MalformedImages ==
    {ImageData(<< 255, 255, 255 >>, 1, 1),
     ImageData(<< 255, 255, 255, 255, 255 >>, 1, 1)}

MalformedContents == {Some(i) : i \in MalformedImages}

NextM ==
    \/ Next
    \/ \E content \in MalformedContents : ExternalWrite(content)

SpecM == Init /\ [][NextM]_vars

(* ----------------------- presentation: tray ---------------------------- *)
\* str::contains on an error message, a message being the sequence of
\* the parts that its format strings join with ": "
contains(e, needle) == \E i \in 1..Len(e) : e[i] = needle

\* mutant: every error turns polling off
HandleResult_AnyError(t, result, e) ==
    IF result = "Panic"
    THEN [t EXCEPT !.exited = TRUE]
    ELSE IF result = "Err"
    THEN [t EXCEPT !.enabled = FALSE, !.toggle_text = "Enable"]
    ELSE t

\* mutant: a config parse error turns polling off and leaves the toggle
\* item's text as it is
HandleResult_KeepsLabel(t, result, e) ==
    IF result = "Panic"
    THEN [t EXCEPT !.exited = TRUE]
    ELSE IF result = "Err" /\ contains(e, "config parse error")
    THEN [t EXCEPT !.enabled = FALSE]
    ELSE t

\* the match on process_clipboard's result in the timer handler: a config
\* parse error turns polling off and relabels the toggle item; a panic
\* ends the event loop
HandleResult(t, result, e) ==
    IF result = "Panic"
    THEN [t EXCEPT !.exited = TRUE]
    ELSE IF result = "Err" /\ contains(e, "config parse error")
    THEN [t EXCEPT !.enabled = FALSE, !.toggle_text = "Enable"]
    ELSE t

\* mutant: the timer handler calls process_clipboard whatever the flag
Tick_IgnoresFlag(fail) ==
    /\ ~tray.exited
    /\ Poll(fail)
    /\ tray' = HandleResult([tray EXCEPT !.idle_tick = ~tray.enabled],
                            poll'.result, poll'.err)
    /\ UNCHANGED << scan, cfg_op >>

\* mutant: a tick that finds the flag off stores the provider's counter
\* as the fingerprint
Tick_FingerprintsWhileOff(fail) ==
    /\ ~tray.exited
    /\ IF tray.enabled
       THEN /\ Poll(fail)
            /\ tray' = HandleResult(tray, poll'.result, poll'.err)
       ELSE /\ tray' = [tray EXCEPT !.idle_tick = TRUE]
            /\ last_change_count' = counter
            /\ UNCHANGED << image, counter, poll, ext_since, self_written,
                            config_file >>
    /\ UNCHANGED << scan, cfg_op >>

\* the poll timer fires (ResumeTimeReached): process_clipboard is called
\* when the enabled flag is set, and nothing is done otherwise
Tick(fail) ==
    /\ ~tray.exited
    /\ IF tray.enabled
       THEN /\ Poll(fail)
            /\ tray' = HandleResult(tray, poll'.result, poll'.err)
       ELSE /\ tray' = [tray EXCEPT !.idle_tick = TRUE]
            /\ UNCHANGED << service_vars, config_file >>
    /\ UNCHANGED << scan, cfg_op >>

\* the user picks the toggle item: the flag is flipped (fetch_xor) and the
\* item relabelled
Toggle ==
    /\ ~tray.exited
    /\ tray' = [tray EXCEPT !.enabled = ~tray.enabled,
                            !.toggle_text = IF tray.enabled THEN "Enable"
                                                            ELSE "Disable",
                            !.idle_tick = FALSE]
    /\ UNCHANGED << service_vars, config_file, scan, cfg_op >>

\* the user picks Quit: the event loop exits
Quit ==
    /\ ~tray.exited
    /\ tray' = [tray EXCEPT !.exited = TRUE]
    /\ UNCHANGED << service_vars, config_file, scan, cfg_op >>

\* what other applications place on the clipboard while the shell runs:
\* something that is no image, or one white pixel
TrayContents == {None, Some(ImageData(<< 255, 255, 255, 255 >>, 1, 1))}

InitTray ==
    /\ Init
    /\ image \in TrayContents

NextTray ==
    \/ \E fail \in FailPoints : Tick(fail)
    \/ Toggle
    \/ Quit
    \/ \E content \in TrayContents : ExternalWrite(content)
    \/ \E file \in ConfigFiles : EditConfig(file)

SpecTray == InitTray /\ [][NextTray]_vars

(* ------------------ the config provider and its callers ---------------- *)
\* the channel values a caller saves
ConfigBytes == {0, 7, 255}

SaveColors == {Color(r, g, b) : r, g, b \in ConfigBytes}

\* the files found on disk: those of ConfigFiles, one without the key b,
\* one with a value that is no u8
FilesOnDisk == ConfigFiles \cup {Some(<< 255, 255 >>), Some(<< 255, 255, 256 >>)}

InitConfig ==
    /\ image = None
    /\ counter = 0
    /\ last_change_count = 0
    /\ config_file \in FilesOnDisk
    /\ poll = NoPoll
    /\ ext_since = FALSE
    /\ self_written = FALSE
    /\ tray = TrayStart
    /\ scan = ScanOff
    /\ cfg_op = NoOp

\* a call of load_target_color (saved: the color of the successful save
\* that came directly before it, if one did; ensured: the color of the
\* successful save that came before the successful ensure_config_exists
\* calls directly before it)
LoadTargetColor(io_fails) ==
    /\ LET r == load_target_color(config_file, io_fails)
       IN  cfg_op' = [op |-> "load", ok |-> r.ok, err |-> r.err,
                      value |-> IF r.ok THEN Some(r.value) ELSE None,
                      arg |-> None,
                      saved |-> IF cfg_op.op = "save" /\ cfg_op.ok
                                THEN cfg_op.arg ELSE None,
                      ensured |-> IF cfg_op.op = "ensure" /\ cfg_op.ok
                                  THEN cfg_op.saved ELSE None]
    /\ UNCHANGED << service_vars, config_file, tray, scan >>

\* a call of save_target_color(color)
SaveTargetColor(color, fails) ==
    /\ LET r == save_target_color(config_file, color, fails)
       IN  /\ config_file' = r.file
           /\ cfg_op' = [op |-> "save", ok |-> r.ok, err |-> r.err,
                         value |-> None, arg |-> Some(color), saved |-> None,
                         ensured |-> None]
    /\ UNCHANGED << service_vars, tray, scan >>

\* a call of ensure_config_exists (main calls it before the shell starts;
\* saved: the color of the successful save before it and before the
\* successful ensure_config_exists calls directly before it)
EnsureConfigExists(fails) ==
    /\ LET r == ensure_config_exists(config_file, fails)
       IN  /\ config_file' = r.file
           /\ cfg_op' = [op |-> "ensure", ok |-> r.ok, err |-> r.err,
                         value |-> None, arg |-> None,
                         saved |-> IF cfg_op.op = "save" /\ cfg_op.ok
                                   THEN cfg_op.arg
                                   ELSE IF cfg_op.op = "ensure" /\ cfg_op.ok
                                   THEN cfg_op.saved
                                   ELSE None,
                         ensured |-> None]
    /\ UNCHANGED << service_vars, tray, scan >>

NextConfig ==
    \/ \E io_fails \in BOOLEAN : LoadTargetColor(io_fails)
    \/ \E color \in SaveColors, fails \in SaveFailPoints :
           SaveTargetColor(color, fails)
    \/ \E fails \in SaveFailPoints : EnsureConfigExists(fails)
    \/ \E file \in FilesOnDisk : EditConfig(file)

SpecConfig == InitConfig /\ [][NextConfig]_vars

(* ------------- the service with already transparent pixels ------------ *)
\* what other applications place: something that is no image, a white
\* pixel whose alpha is 0 already, that pixel next to an opaque black one,
\* an opaque white pixel
AlphaContents ==
    {None,
     Some(ImageData(<< 255, 255, 255, 0 >>, 1, 1)),
     Some(ImageData(<< 255, 255, 255, 0, 0, 0, 0, 255 >>, 2, 1)),
     Some(ImageData(<< 255, 255, 255, 255 >>, 1, 1))}

InitAlpha ==
    /\ image \in AlphaContents
    /\ counter \in 0..MaxInitCount
    /\ last_change_count = 0
    /\ config_file \in ConfigFiles
    /\ poll = NoPoll
    /\ ext_since = FALSE
    /\ self_written = FALSE
    /\ tray = TrayStart
    /\ scan = ScanOff
    /\ cfg_op = NoOp

NextAlpha ==
    \/ \E fail \in FailPoints : ProcessClipboard(fail)
    \/ \E content \in AlphaContents : ExternalWrite(content)
    \/ \E file \in ConfigFiles : EditConfig(file)

SpecAlpha == InitAlpha /\ [][NextAlpha]_vars

(* ----------- the service polled forever, no collaborator failing ------- *)
\* an external write that leaves room below MaxCount for the write this
\* program answers it with
ExternalWriteEarly(content) ==
    /\ counter + 1 < MaxCount
    /\ ExternalWrite(content)

NextLive ==
    \/ ProcessClipboard("none")
    \/ \E content \in ClipboardContents : ExternalWriteEarly(content)
    \/ \E file \in ConfigFiles : EditConfig(file)

\* a process_clipboard call would change the state: ENABLED
\* << ProcessClipboard(fail) >>_vars, written as a state predicate
PollPending(fail) ==
    LET c == process_clipboard(Enter, fail)
    IN  /\ poll.result # "Panic"
        /\ c.counter <= MaxCount
        /\ << c.image, c.counter, c.last, PollRecord(c), FALSE,
              c.wrote \/ self_written >>
           # << image, counter, last_change_count, poll, ext_since,
                self_written >>

\* the shell's timer fires again and again (ControlFlow::WaitUntil is set
\* anew on every event), so process_clipboard is called again and again:
\* WF_vars(ProcessClipboard("none")), with its ENABLED written out
SpecLive ==
    /\ Init
    /\ [][NextLive]_vars
    /\ \/ []<>(~PollPending("none"))
       \/ []<><< ProcessClipboard("none") >>_vars

(* -------------- the service racing with external writers --------------- *)
\* one call of process_clipboard with an external write at the point
\* `at`; the call reaches that point. Afterwards ext_since tells whether
\* the external content is still on the clipboard.
RacedPoll(fail, at, content) ==
    LET c == process_clipboard_raced(Enter, fail, at, content)
        kept == at = "after_set_image" \/ ~c.wrote
    IN  /\ poll.result # "Panic"
        /\ c.ext
        /\ c.counter <= MaxCount
        /\ image' = c.image
        /\ counter' = c.counter
        /\ last_change_count' = c.last
        /\ poll' = [PollRecord(c) EXCEPT !.raced = at]
        /\ ext_since' = kept
        /\ self_written' = (~kept /\ c.wrote)
        /\ UNCHANGED << config_file, tray, scan, cfg_op >>

InitRace ==
    /\ Init
    /\ image \in TrayContents

NextRace ==
    \/ \E fail \in FailPoints : ProcessClipboard(fail)
    \/ \E fail \in FailPoints, at \in RacePoints, content \in TrayContents :
           RacedPoll(fail, at, content)
    \/ \E content \in TrayContents : ExternalWrite(content)
    \/ \E file \in ConfigFiles : EditConfig(file)

SpecRace == InitRace /\ [][NextRace]_vars

TypeOK ==
    /\ IsSome(image) => Len(Unwrap(image).pixels) = 4 * Unwrap(image).width
    /\ counter \in 0..MaxCount
    /\ last_change_count \in 0..MaxCount

(* --------------------------- properties ------------------------------- *)
\* a process_clipboard call happens in this step (the first two conjuncts
\* are implied by the third and rule the other actions out early)
PollStep ==
    /\ ~ext_since'
    /\ config_file' = config_file
    /\ \E fail \in FailPoints : ProcessClipboard(fail)

Names(calls) == [i \in 1..Len(calls) |-> calls[i].name]

\* every collaborator call of the poll succeeded
AllOk(calls) == \A i \in 1..Len(calls) : calls[i].ok

Invoked(calls, name) == \E i \in 1..Len(calls) : calls[i].name = name

Ok(name) == [name |-> name, ok |-> TRUE]

\* the scan's contract: alpha 0 on the pixels whose RGB is the target,
\* every other byte as it was
ExpectedPixels(pixels, target) ==
    [i \in 1..Len(pixels) |->
        IF i % 4 = 0 /\ << pixels[i - 3], pixels[i - 2], pixels[i - 1] >>
                          = << target.r, target.g, target.b >>
        THEN 0
        ELSE pixels[i]]

\* C1: a poll that starts with this program's own write still on the
\* clipboard (no external write since) does not call get_image.
C1_SelfWrittenNeverReprocessed ==
    [][(PollStep /\ self_written) => ~Invoked(poll'.calls, "get_image")]_vars

\* C2 as stated: with no failing collaborator, a poll that finds an image
\* with a pixel of the target color on the clipboard returns Processed, and
\* the poll that follows it with no external write in between returns
\* Skipped.
C2_AnyTwoPolls ==
    [][(PollStep /\ AllOk(poll'.calls))
       => (/\ HasMatchingPixel(image, config_file)
              => poll'.result = "Processed"
           /\ (/\ poll.result = "Processed"
               /\ poll.wrote
               /\ ~ext_since)
              => poll'.result = "Skipped")]_vars

\* C2 (amended): with no failing collaborator, a poll that finds the change
\* counter different from the stored fingerprint and an image with a pixel
\* of the target color on the clipboard returns Processed after writing the
\* image back, and the poll that follows it with no external write in
\* between returns Skipped.
C2_ProcessedThenSkipped ==
    [][(PollStep /\ AllOk(poll'.calls))
       => (/\ (/\ counter # last_change_count
               /\ HasMatchingPixel(image, config_file))
              => (poll'.result = "Processed" /\ poll'.wrote)
           /\ (/\ poll.result = "Processed"
               /\ poll.wrote
               /\ ~ext_since)
              => poll'.result = "Skipped")]_vars

C2_Witness ==
    /\ poll.nth = "later"
    /\ poll.result = "Skipped"
    /\ self_written
    /\ ~ext_since
    /\ counter = last_change_count

\* C3: a poll whose change_count read equals last_change_count returns
\* Skipped, calls nothing but change_count, and leaves last_change_count
\* and the clipboard (content and counter) as they were.
C3_SkippedTouchesNothing ==
    [][(/\ PollStep
        /\ counter = last_change_count
        /\ poll'.calls[1].ok)
       => (/\ poll'.result = "Skipped"
           /\ poll'.calls = << Ok("change_count") >>
           /\ last_change_count' = last_change_count
           /\ image' = image
           /\ counter' = counter)]_vars

C3_Witness ==
    /\ poll.result = "Skipped"
    /\ IsSome(image)
    /\ ~ext_since

\* C4: a poll that returns an error leaves last_change_count at the value
\* it had before the poll, whichever collaborator call failed.
C4_ErrorKeepsFingerprint ==
    [][(PollStep /\ poll'.result = "Err")
       => last_change_count' = last_change_count]_vars

C4_Witness ==
    /\ poll.result = "Err"
    /\ poll.failed_at = "change_count_after_write"
    /\ poll.wrote
    /\ counter # last_change_count
    /\ ~ext_since

\* C5: a collaborator call that fails is the last call of its poll and the
\* poll returns Err; after a failed get_image or load_target_color there
\* is no set_image in that poll.
C5_FailureAbortsPoll ==
    [][PollStep
       => \A i \in 1..Len(poll'.calls) :
             ~poll'.calls[i].ok
             => /\ poll'.result = "Err"
                /\ i = Len(poll'.calls)
                /\ poll'.calls[i].name \in {"get_image", "load_target_color"}
                   => ~Invoked(poll'.calls, "set_image")]_vars

C5_Witness ==
    /\ poll.result = "Err"
    /\ poll.failed_at = "load_target_color"
    /\ Len(poll.calls) = 3
    /\ ~ext_since

\* C6: a poll that finds the counter different from the fingerprint and no
\* image on the clipboard returns NoImage, calls only change_count and
\* get_image, and stores the counter value read at its start.
C6_NoImageRecordsCounter ==
    [][(/\ PollStep
        /\ counter # last_change_count
        /\ ~IsSome(image)
        /\ AllOk(poll'.calls))
       => (/\ poll'.result = "NoImage"
           /\ poll'.calls = << Ok("change_count"), Ok("get_image") >>
           /\ last_change_count' = counter
           /\ counter' = counter)]_vars

C6_Witness ==
    /\ poll.result = "NoImage"
    /\ last_change_count = counter
    /\ last_change_count # 0
    /\ ~ext_since

\* C7: with no failing collaborator, the first poll of a new service whose
\* clipboard holds no image returns NoImage, and a second poll with no
\* clipboard change in between returns NoImage or Skipped.
C7_EmptyClipboardAtStart ==
    [][(/\ PollStep
        /\ ~IsSome(image)
        /\ ~ext_since
        /\ AllOk(poll'.calls))
       => (/\ poll.nth = "none" => poll'.result = "NoImage"
           /\ poll.nth = "first" => poll'.result \in {"NoImage", "Skipped"})]_vars

\* C8: a poll that finds new content holding an image with a pixel of the
\* target color, and whose collaborators all succeed, returns Processed and
\* leaves on the clipboard an image of the same width, height and length,
\* the same RGB bytes, alpha 0 on the pixels of the target color and the
\* original alpha on the others.
C8_TargetPixelsTransparent ==
    [][(/\ PollStep
        /\ counter # last_change_count
        /\ HasMatchingPixel(image, config_file)
        /\ AllOk(poll'.calls))
       => (/\ poll'.result = "Processed"
           /\ IsSome(image')
           /\ Unwrap(image').width = Unwrap(image).width
           /\ Unwrap(image').height = Unwrap(image).height
           /\ Len(Unwrap(image').pixels) = Len(Unwrap(image).pixels)
           /\ LET old == Unwrap(image).pixels
                  new == Unwrap(image').pixels
                  t == TargetOf(config_file).value
              IN  \A k \in 1..NumChunks(old) :
                     /\ PixelColor(new, k) = PixelColor(old, k)
                     /\ PixelColor(old, k) = t => new[4 * k] = 0
                     /\ PixelColor(old, k) # t => new[4 * k] = old[4 * k])]_vars

C8_Witness ==
    /\ poll.result = "Processed"
    /\ poll.wrote
    /\ ~ext_since
    /\ IsSome(image)
    /\ \E k \in 1..NumChunks(Unwrap(image).pixels) : Unwrap(image).pixels[4 * k] = 0
    /\ \E k \in 1..NumChunks(Unwrap(image).pixels) : Unwrap(image).pixels[4 * k] = 128

\* C9: a poll that finds new content holding an image with no pixel of the
\* target color, and whose collaborators all succeed, does not call
\* set_image, leaves the clipboard as it was, returns Processed and stores
\* the counter value read at its start; the next poll, with no clipboard
\* change in between, returns Skipped.
C9_NoMatchNoWrite ==
    [][(/\ PollStep
        /\ AllOk(poll'.calls))
       => (/\ (/\ counter # last_change_count
               /\ IsSome(image)
               /\ TargetOf(config_file).ok
               /\ ~HasMatchingPixel(image, config_file))
              => (/\ ~Invoked(poll'.calls, "set_image")
                  /\ image' = image
                  /\ counter' = counter
                  /\ poll'.result = "Processed"
                  /\ last_change_count' = counter)
           /\ (/\ poll.result = "Processed"
               /\ ~poll.wrote
               /\ ~ext_since)
              => poll'.result = "Skipped")]_vars

C9_Witness ==
    /\ poll.result = "Processed"
    /\ ~poll.wrote
    /\ poll.changed = 0
    /\ ~ext_since
    /\ IsSome(image)
    /\ Len(Unwrap(image).pixels) > 0
    /\ last_change_count = counter

\* C10: a poll whose scan finds one or more pixels of the target color, and
\* whose collaborators all succeed, calls set_image exactly once, with the
\* scanned image, then change_count again, stores that second value (which
\* is not the value read at the start) and returns Processed.
C10_PostWriteCounterStored ==
    [][(/\ PollStep
        /\ poll'.changed > 0
        /\ AllOk(poll'.calls))
       => (/\ poll'.calls = << Ok("change_count"), Ok("get_image"),
                              Ok("load_target_color"), Ok("set_image"),
                              Ok("change_count") >>
           /\ image' = Some([Unwrap(image) EXCEPT
                    !.pixels = ExpectedPixels(@, TargetOf(config_file).value)])
           /\ last_change_count' = counter'
           /\ last_change_count' # counter
           /\ poll'.result = "Processed")]_vars

C10_Witness ==
    /\ poll.result = "Processed"
    /\ poll.wrote
    /\ poll.changed > 0
    /\ ~ext_since
    /\ last_change_count = counter
    /\ counter > 1

\* C11: with no failing collaborator, the poll that follows an external
\* write of an image (which bumps the change counter), itself following a
\* poll that returned Skipped, returns Processed.
C11_ProcessedAfterExternalWrite ==
    [][(/\ PollStep
        /\ ext_since
        /\ poll.result = "Skipped"
        /\ IsSome(image)
        /\ AllOk(poll'.calls))
       => poll'.result = "Processed"]_vars

C11_Witness ==
    /\ poll.after_skip
    /\ poll.nth = "later"
    /\ poll.result = "Processed"
    /\ IsSome(image)
    /\ ~ext_since

\* the RGB bytes of pixel k of a buffer are the channels of the target
RGBIs(buf, k, target) ==
    /\ buf[4 * k - 3] = target.r
    /\ buf[4 * k - 2] = target.g
    /\ buf[4 * k - 1] = target.b

C13_ScanFrame ==
    scan.stage = "once" =>
        /\ Len(scan.pixels) = Len(scan.input)
        /\ \A i \in 1..Len(scan.input) :
               i % 4 # 0 => scan.pixels[i] = scan.input[i]
        /\ \A k \in 1..(Len(scan.input) \div 4) :
               ~RGBIs(scan.input, k, scan.target)
                   => scan.pixels[4 * k] = scan.input[4 * k]

C13_Witness ==
    /\ scan.stage = "once"
    /\ scan.pixels # scan.input
    /\ \E k \in 1..(Len(scan.input) \div 4) :
           /\ ~RGBIs(scan.input, k, scan.target)
           /\ scan.pixels[4 * k] = 255

\* C14: a second make_transparent call with the same target leaves the
\* buffer byte for byte as the first call left it.
C14_RescanKeepsBuffer ==
    scan.stage = "twice" => scan.pixels = scan.first

C14_Witness ==
    /\ scan.stage = "twice"
    /\ scan.first # scan.input
    /\ scan.pixels = scan.first

\* C15: a second make_transparent call with the same target returns 0.
C15_RescanReturnsZero ==
    scan.stage = "twice" => scan.count = 0

\* C16: a process_clipboard call that reads an image whose buffer length
\* is not a multiple of 4, its other collaborators succeeding, ends in
\* make_transparent's panic: no byte of the clipboard image is modified,
\* set_image is not invoked and last_change_count is not updated.
C16_MalformedBufferPanics ==
    [][(/\ PollStep
        /\ counter # last_change_count
        /\ IsSome(image)
        /\ AllOk(poll'.calls))
       => (IF Len(Unwrap(image).pixels) % 4 # 0
           THEN /\ poll'.result = "Panic"
                /\ ~Invoked(poll'.calls, "set_image")
                /\ last_change_count' = last_change_count
                /\ image' = image
                /\ counter' = counter
           ELSE poll'.result # "Panic")]_vars

C16_Witness ==
    /\ poll.result = "Panic"
    /\ IsSome(image)
    /\ Len(Unwrap(image).pixels) = 5
    /\ ~Invoked(poll.calls, "set_image")
    /\ last_change_count # counter

\* the poll timer fires in this step
TickStep ==
    /\ ~ext_since' \/ ~tray.enabled
    /\ config_file' = config_file
    /\ \E fail \in FailPoints : Tick(fail)

\* the error of a call is a ConfigError::Parse from load_target_color
IsParseError(p) ==
    /\ p.result = "Err"
    /\ p.failed_at = "load_target_color"
    /\ Len(p.err) >= 2
    /\ p.err[2] = "config parse error"

\* C17: a timer tick with polling enabled turns the enabled flag off
\* exactly when its process_clipboard call returns a config parse error;
\* after every other error and every Ok result the shell is as it was,
\* with the flag still set. While the flag is off a tick makes no
\* process_clipboard call, and only the user's toggle sets it again.
C17_OnlyParseErrorDisables ==
    [][/\ (TickStep /\ tray.enabled)
          => IF IsParseError(poll')
             THEN ~tray'.enabled /\ tray'.toggle_text = "Enable"
             ELSE tray' = tray
       /\ (TickStep /\ ~tray.enabled)
          => /\ poll' = poll
             /\ ~tray'.enabled
       /\ (~tray.enabled /\ tray'.enabled)
          => (Toggle /\ tray'.toggle_text = "Disable")]_vars

C17_Witness ==
    /\ ~tray.enabled
    /\ tray.idle_tick
    /\ tray.toggle_text = "Enable"
    /\ IsParseError(poll)
    /\ ~tray.exited

\* C18: in a state where the enabled flag is off, no step of the program
\* calls process_clipboard: the record of calls, last_change_count and the
\* program's own-write mark stay as they are, and the clipboard changes
\* only by another application's write.
C18_DisabledNeverPolls ==
    [][~tray.enabled
       => /\ poll' = poll
          /\ last_change_count' = last_change_count
          /\ self_written' => self_written
          /\ (image' # image \/ counter' # counter) => ext_since']_vars

C18_Witness ==
    /\ ~tray.enabled
    /\ tray.idle_tick
    /\ ext_since
    /\ IsSome(image)
    /\ counter # last_change_count
    /\ TargetOf(config_file).ok

\* load_target_color is called in this step
LoadStep ==
    /\ config_file' = config_file
    /\ cfg_op'.op = "load"
    /\ \E io_fails \in BOOLEAN : LoadTargetColor(io_fails)

IsIoError(op) == ~op.ok /\ op.err[1] = "config I/O error"

\* the content of a config file lacks a key of target_color or holds a
\* value that is no u8
Malformed(content) ==
    \/ Len(content) # 3
    \/ \E i \in 1..Len(content) : content[i] < 0 \/ content[i] > 255

\* C19: a load_target_color call whose read does not fail with an I/O
\* error returns white without error when there is no config file, and
\* creates none; when the file is there and malformed it returns a parse
\* error and no color.
C19_MissingDefaultMalformedError ==
    [][(LoadStep /\ ~IsIoError(cfg_op'))
       => /\ ~IsSome(config_file)
             => /\ cfg_op'.ok
                /\ cfg_op'.value = Some(Color(255, 255, 255))
                /\ ~IsSome(config_file')
          /\ (IsSome(config_file) /\ Malformed(Unwrap(config_file)))
             => /\ ~cfg_op'.ok
                /\ cfg_op'.err[1] = "config parse error"
                /\ cfg_op'.value = None]_vars

C19_Witness ==
    /\ cfg_op.op = "load"
    /\ ~cfg_op.ok
    /\ cfg_op.err[1] = "config parse error"
    /\ config_file = Some(<< 255, 255 >>)

\* C20: a load_target_color call that directly follows a successful
\* save_target_color(c), whatever the file was before the save and
\* whatever was saved earlier, returns c (its read not failing with an I/O
\* error).
C20_SaveThenLoad ==
    [][(/\ LoadStep
        /\ cfg_op.op = "save"
        /\ cfg_op.ok
        /\ ~IsIoError(cfg_op'))
       => /\ cfg_op'.ok
          /\ cfg_op'.value = cfg_op.arg]_vars

C20_Witness ==
    /\ cfg_op.op = "load"
    /\ cfg_op.ok
    /\ cfg_op.saved = Some(Color(0, 7, 255))
    /\ cfg_op.value = cfg_op.saved

\* ensure_config_exists is called in this step
EnsureStep ==
    /\ cfg_op'.op = "ensure"
    /\ \E fails \in SaveFailPoints : EnsureConfigExists(fails)

\* C21: a successful ensure_config_exists call creates a missing config
\* file with the color white and leaves a file that is there as it is; a
\* second call changes nothing, and a load_target_color call after it
\* still returns the color that was saved before it.
C21_EnsureIdempotent ==
    [][/\ (EnsureStep /\ cfg_op'.ok)
          => /\ ~IsSome(config_file)
                => config_file' = Some(<< 255, 255, 255 >>)
             /\ IsSome(config_file) => config_file' = config_file
             /\ (cfg_op.op = "ensure" /\ cfg_op.ok)
                => config_file' = config_file
       /\ (/\ LoadStep
           /\ cfg_op.op = "ensure"
           /\ cfg_op.ok
           /\ IsSome(cfg_op.saved)
           /\ ~IsIoError(cfg_op'))
          => /\ cfg_op'.ok
             /\ cfg_op'.value = cfg_op.saved]_vars

C21_Witness ==
    /\ cfg_op.op = "load"
    /\ cfg_op.ok
    /\ cfg_op.ensured = Some(Color(0, 7, 255))
    /\ cfg_op.value = cfg_op.ensured
    /\ config_file = Some(<< 0, 7, 255 >>)

\* C22: a process_clipboard call that reads an image which the scan leaves
\* byte for byte as it was (no pixel of the target color, or only such
\* pixels whose alpha is 0 already) does not invoke set_image and does not
\* bump the change counter.
C22_UnchangedImageNotWritten ==
    [][(/\ PollStep
        /\ counter # last_change_count
        /\ IsSome(image)
        /\ TargetOf(config_file).ok
        /\ ExpectedPixels(Unwrap(image).pixels, TargetOf(config_file).value)
               = Unwrap(image).pixels)
       => (/\ ~Invoked(poll'.calls, "set_image")
           /\ counter' = counter)]_vars

\* the fingerprint is the provider's counter and the most recent call
\* returned Skipped
Settled ==
    /\ counter = last_change_count
    /\ poll.result = "Skipped"

\* C23: with process_clipboard called again and again and external
\* writers writing only finitely often, from some call on every call
\* returns Skipped with the fingerprint equal to the provider's counter,
\* or every call fails (the configuration stays malformed): the program's
\* own writes do not keep it processing.
C23_EventuallyOnlySkipped ==
    <>[](Settled \/ poll.result = "Err")

C23_Witness ==
    /\ Settled
    /\ self_written
    /\ poll.nth = "later"
    /\ counter = MaxCount
    /\ IsSome(image)

\* the collaborator calls of a process_clipboard call that runs to its end
CallOrder ==
    << "change_count", "get_image", "load_target_color", "set_image",
       "change_count" >>

IsPrefix(s, t) == Len(s) <= Len(t) /\ \A i \in 1..Len(s) : s[i] = t[i]

\* C24: the collaborator calls of one process_clipboard call are a prefix
\* of change_count, get_image, load_target_color, set_image, change_count:
\* get_image only when the counter differs from the fingerprint,
\* load_target_color only after get_image returned an image, set_image
\* only after a scan that changed at least one pixel, the second
\* change_count only after a successful set_image.
C24_CallOrder ==
    [][PollStep
       => LET calls == poll'.calls
          IN  /\ Len(calls) >= 1
              /\ IsPrefix(Names(calls), CallOrder)
              /\ Len(calls) >= 2
                 => calls[1].ok /\ counter # last_change_count
              /\ Len(calls) >= 3
                 => calls[2].ok /\ IsSome(image)
              /\ Len(calls) >= 4
                 => /\ calls[3].ok
                    /\ ExpectedPixels(Unwrap(image).pixels,
                                      TargetOf(config_file).value)
                           # Unwrap(image).pixels
              /\ Len(calls) >= 5 => calls[4].ok]_vars

\* the image on the clipboard holds an opaque pixel of the color that the
\* configuration now names
StaleMatch ==
    /\ IsSome(image)
    /\ TargetOf(config_file).ok
    /\ \E k \in 1..NumChunks(Unwrap(image).pixels) :
           /\ PixelColor(Unwrap(image).pixels, k) = TargetOf(config_file).value
           /\ Unwrap(image).pixels[4 * k] # 0

\* C25: once a call has fingerprinted the clipboard content (it returned
\* Processed, NoImage or Skipped) and no external write followed, the next
\* call whose change_count succeeds returns Skipped, whatever the
\* configuration has been changed to: it makes no other collaborator call
\* and leaves the clipboard, the counter and the fingerprint as they are.
C25_ColorChangeNotApplied ==
    [][(/\ PollStep
        /\ poll.result \in {"Processed", "NoImage", "Skipped"}
        /\ ~ext_since
        /\ poll'.calls[1].ok)
       => (/\ poll'.result = "Skipped"
           /\ Len(poll'.calls) = 1
           /\ image' = image
           /\ counter' = counter
           /\ last_change_count' = last_change_count)]_vars

C25_Witness ==
    /\ poll.result = "Skipped"
    /\ poll.nth = "later"
    /\ ~ext_since
    /\ ~self_written
    /\ last_change_count > 0
    /\ StaleMatch

\* C26: the call that follows, with no external write in between, a call
\* that failed in get_image, load_target_color or set_image, and whose own
\* collaborator calls all succeed, does not return Skipped: it invokes
\* get_image again and returns Processed or NoImage.
C26_RetryAfterError ==
    [][(/\ PollStep
        /\ poll.result = "Err"
        /\ poll.failed_at \in {"get_image", "load_target_color", "set_image"}
        /\ ~ext_since
        /\ AllOk(poll'.calls))
       => (/\ Invoked(poll'.calls, "get_image")
           /\ poll'.result \in {"Processed", "NoImage"}
           /\ IsSome(image) <=> poll'.result = "Processed")]_vars

C26_Witness ==
    /\ poll.after_err
    /\ poll.result = "Processed"
    /\ poll.wrote
    /\ AllOk(poll.calls)

\* C27: whatever the provider's counter is at construction, the first
\* process_clipboard call does not return Skipped, and with an image on the
\* clipboard it invokes get_image.
C27_FirstCallNeverSkipped ==
    [][(PollStep /\ poll.nth = "none" /\ poll'.calls[1].ok)
       => (/\ poll'.result # "Skipped"
           /\ IsSome(image) => Invoked(poll'.calls, "get_image"))]_vars

\* C28: an image an external writer left on the clipboard, at whatever
\* point of a process_clipboard call it was written, is never covered by
\* the fingerprint: while it is there, the provider's counter differs from
\* last_change_count, so that a later call reads it with get_image.
C28_ExternalImageNotMasked ==
    (ext_since /\ IsSome(image)) => counter # last_change_count

\* a process_clipboard call into which an external write falls happens in
\* this step
RaceStep ==
    /\ poll'.raced # "no"
    /\ \E fail \in FailPoints, at \in RacePoints, content \in TrayContents :
           RacedPoll(fail, at, content)

\* the call returned NoImage, or Processed without a write
NoWritePath(p) ==
    \/ p.result = "NoImage"
    \/ p.result = "Processed" /\ ~p.wrote

\* C29: a process_clipboard call that takes the NoImage path or the
\* zero-match path while an external write falls into it (after its first
\* change_count) stores the counter value it read at its start, so the
\* provider's counter is above the fingerprint when it ends; the next call,
\* its change_count succeeding, does not return Skipped and invokes
\* get_image.
C29_StartCounterStored ==
    [][/\ (RaceStep /\ NoWritePath(poll'))
          => /\ last_change_count' = counter
             /\ counter' = counter + 1
             /\ ext_since'
       /\ (/\ PollStep
           /\ poll.raced # "no"
           /\ NoWritePath(poll)
           /\ ext_since
           /\ poll'.calls[1].ok)
          => /\ poll'.result # "Skipped"
             /\ Invoked(poll'.calls, "get_image")]_vars

C29_Witness ==
    /\ poll.after_race = "Processed"
    /\ poll.raced = "no"
    /\ poll.result = "Processed"
    /\ poll.wrote
    /\ ~ext_since

\* C30: last_change_count never exceeds the provider's counter, and it
\* changes only in a process_clipboard call, to a value that a successful
\* change_count of that call returned: the counter at the start of the
\* call, or the counter after the call's write.
C30_FingerprintIsReturnedCounter ==
    /\ [](last_change_count <= counter)
    /\ [][last_change_count' # last_change_count
          => /\ PollStep
             /\ \/ /\ last_change_count' = counter
                   /\ poll'.calls[1] = Ok("change_count")
                \/ /\ last_change_count' = counter'
                   /\ Len(poll'.calls) = 5
                   /\ poll'.calls[5] = Ok("change_count")]_vars

C30_Witness ==
    /\ last_change_count > 0
    /\ last_change_count < counter
    /\ poll.result = "Err"
    /\ poll.failed_at = "set_image"
    /\ ~ext_since

\* the image another application placed on the clipboard while the enabled
\* flag was off is still there, and the flag is set again
PlacedWhileOff ==
    /\ tray.enabled
    /\ tray.off_write
    /\ ext_since
    /\ IsSome(image)

\* C31: no step taken while the enabled flag is off (by the user's toggle
\* or after a config parse error) changes last_change_count; so the first
\* timer tick after the flag is set again, finding on the clipboard an
\* image that was placed there while the flag was off, does not return
\* Skipped when its change_count succeeds: it invokes get_image, returns
\* Processed when no collaborator fails, and writes the image back with
\* the target-colored pixels transparent when it has such pixels.
C31_ImagePlacedWhileOffProcessed ==
    [][/\ ~tray.enabled => last_change_count' = last_change_count
       /\ (TickStep /\ PlacedWhileOff /\ poll'.calls[1].ok)
          => /\ poll'.result # "Skipped"
             /\ Invoked(poll'.calls, "get_image")
             /\ AllOk(poll'.calls) => poll'.result = "Processed"
             /\ (AllOk(poll'.calls) /\ HasMatchingPixel(image, config_file))
                => /\ poll'.wrote
                   /\ image' = Some([Unwrap(image) EXCEPT !.pixels =
                          ExpectedPixels(Unwrap(image).pixels,
                                         TargetOf(config_file).value)])]_vars

C31_Witness ==
    /\ poll.after_off
    /\ poll.result = "Processed"
    /\ poll.wrote
    /\ tray.enabled
    /\ tray.idle_tick = FALSE
    /\ last_change_count = counter

\* C32: the toggle item reads "Disable" exactly when the enabled flag is
\* set and "Enable" exactly when it is off, in every state of the shell,
\* and every pick of the toggle item flips the flag.
C32_ToggleTextMatchesFlag ==
    /\ [](tray.toggle_text = IF tray.enabled THEN "Disable" ELSE "Enable")
    /\ [][Toggle => tray'.enabled = ~tray.enabled]_vars

C32_Witness ==
    /\ tray.enabled
    /\ tray.toggle_text = "Disable"
    /\ IsParseError(poll)
    /\ ~tray.exited
====
